---- MODULE Spec2Model ----
(***************************************************************************)
(* pr-enforcer: the poll loop of cli.py (hello / poll_vault) with the      *)
(* tenacity retry wrapper, the deduplication of check runs and their       *)
(* classification by status and conclusion.                                *)
(*                                                                         *)
(* Strings that the program takes apart (the --ignore option, check names) *)
(* are sequences of one-character strings.  Python's None is the value     *)
(* None below; it differs from every such sequence.  Time is in seconds.   *)
(***************************************************************************)
EXTENDS Integers, Sequences, FiniteSets, TLC

VARIABLES
    interval, timeout, name, ignore, exhaustive,  \* the command line options
    user_ignore,                                  \* hello's ignore list
    pc,                                           \* position of the process
    now,                                          \* seconds since tenacity's start_time
    attempt_number,                               \* tenacity's statistics["attempt_number"]
    attempt_start,                                \* value of now when the current attempt began
    fetch_total,                                  \* seconds spent inside get_check_runs so far
    one_incomplete,                               \* history: every fetch so far returned exactly
                                                  \* one check run, incomplete and not ignored
    seen_failed,                                  \* history: some poll cycle had a failed run
    check_runs, latest_runs, _runs,               \* poll_vault's locals of the last attempt
    incomplete, complete, ignored_runs, succeeded_runs, failed_runs,
    failed_state,
    raised,                                       \* what the last attempt / the process raised
    summary,                                      \* the tables log_summary has written
    annotation,                                   \* the ::error annotation was logged
    exit_code                                     \* the process's exit code, NoExit while running

vars == << interval, timeout, name, ignore, exhaustive, user_ignore, pc, now,
           attempt_number, attempt_start, fetch_total, one_incomplete, seen_failed,
           check_runs, latest_runs, _runs, incomplete, complete, ignored_runs, succeeded_runs,
           failed_runs, failed_state, raised, summary, annotation, exit_code >>

--------------------------------------------------------------------------
(* Values *)

None == << "None" >>
NoExit == -1

Str_a == << "a" >>
Str_b == << "b" >>
Str_self == << "s" >>

\* class Status
Status_queued == "queued"
Status_in_progress == "in_progress"
Status_completed == "completed"
Status_complete == << Status_completed >>
Status_incomplete == << Status_queued, Status_in_progress >>

\* class Conclusion
Conclusion_ignored == << "neutral", "skipped" >>
Conclusion_fail_drops_stale ==
    << "action_required", "cancelled", "timed_out", "failure", "failed",
       "startup_failure" >>
Conclusion_fail ==
    << "action_required", "cancelled", "timed_out", "failure", "failed",
       "stale", "startup_failure" >>
Conclusion_succeeded == << "success" >>

\* Python's `x in list`
In(x, list) == \E i \in 1..Len(list) : list[i] = x

--------------------------------------------------------------------------
(* str.split(",") and str.strip *)

IsSpace(c) == c \in { " ", "\t", "\n" }

RECURSIVE lstrip(_)
lstrip(s) == IF s # << >> /\ IsSpace(Head(s)) THEN lstrip(Tail(s)) ELSE s

RECURSIVE rstrip(_)
rstrip(s) ==
    IF s # << >> /\ IsSpace(s[Len(s)]) THEN rstrip(SubSeq(s, 1, Len(s) - 1)) ELSE s

strip_left_only(s) == lstrip(s)
strip(s) == rstrip(lstrip(s))

\* the pieces of s between the separators, in order; never empty
RECURSIVE split_from(_, _, _, _)
split_from(s, sep, i, cur) ==
    IF i > Len(s) THEN << cur >>
    ELSE IF s[i] = sep THEN << cur >> \o split_from(s, sep, i + 1, << >>)
    ELSE split_from(s, sep, i + 1, Append(cur, s[i]))

split(s, sep) == split_from(s, sep, 1, << >>)

\* list(map(str.strip, ignore.split(","))) followed by user_ignore.append(name)
parse_ignore(opt, self) ==
    LET parts == split(opt, ",")
    IN  Append([i \in 1..Len(parts) |-> strip(parts[i])], self)

--------------------------------------------------------------------------
(* reduce_to_latest_runs *)

\* the keys of `groups`, in insertion order
RECURSIVE group_names(_, _)
group_names(runs, seen) ==
    IF runs = << >> THEN seen
    ELSE IF In(Head(runs).name, seen) THEN group_names(Tail(runs), seen)
    ELSE group_names(Tail(runs), Append(seen, Head(runs).name))

group(runs, n) == SelectSeq(runs, LAMBDA r : r.name = n)

\* stable insertion of r into a list sorted by id, descending
RECURSIVE insert_desc(_, _)
insert_desc(r, sorted) ==
    IF sorted = << >> THEN << r >>
    ELSE IF Head(sorted).id >= r.id THEN << Head(sorted) >> \o insert_desc(r, Tail(sorted))
    ELSE << r >> \o sorted

RECURSIVE insert_asc(_, _)
insert_asc(r, sorted) ==
    IF sorted = << >> THEN << r >>
    ELSE IF Head(sorted).id <= r.id THEN << Head(sorted) >> \o insert_asc(r, Tail(sorted))
    ELSE << r >> \o sorted

\* runs.sort(key=id, reverse=True)
RECURSIVE sort_by_id_ascending(_)
sort_by_id_ascending(runs) ==
    IF runs = << >> THEN << >>
    ELSE insert_asc(Head(runs), sort_by_id_ascending(Tail(runs)))

RECURSIVE sort_by_id_reverse(_)
sort_by_id_reverse(runs) ==
    IF runs = << >> THEN << >>
    ELSE LET rest == sort_by_id_reverse(SubSeq(runs, 1, Len(runs) - 1))
         IN  insert_desc(runs[Len(runs)], rest)

reduce_to_latest_runs(runs) ==
    LET names == group_names(runs, << >>)
    IN  [i \in 1..Len(names) |-> sort_by_id_reverse(group(runs, names[i]))[1]]

--------------------------------------------------------------------------
(* the filters of poll_vault *)

name_filter(runs, ign) == SelectSeq(runs, LAMBDA r : ~In(r.name, ign))

filter_and_log_by_status(runs, statuses) ==
    SelectSeq(runs, LAMBDA r : In(r.status, statuses))

filter_matches_absent_conclusion(runs, conclusions) ==
    SelectSeq(runs, LAMBDA r : r.conclusion = "None" \/ In(r.conclusion, conclusions))

filter_and_log_by_conclusion(runs, conclusions) ==
    SelectSeq(runs, LAMBDA r : In(r.conclusion, conclusions))

--------------------------------------------------------------------------
(* the decision at the end of poll_vault, and tenacity's stop condition *)

\* what the body of poll_vault does after classifying: the exception it
\* raises, or "return"
decide_incomplete_first(failed, waiting, exh, fstate) ==
    IF waiting # << >> THEN "Enforcer"
    ELSE IF failed # << >> THEN "Exception"
    ELSE "return"

decide_always_fail_fast(failed, waiting, exh, fstate) ==
    IF failed # << >> THEN "Exception"
    ELSE IF waiting # << >> THEN "Enforcer"
    ELSE "return"

decide_forgets_failed_state(failed, waiting, exh, fstate) ==
    IF failed # << >> /\ ~exh THEN "Exception"
    ELSE IF waiting # << >> THEN "Enforcer"
    ELSE "return"

decide_fails_on_any_completed(failed, waiting, exh, fstate) ==
    IF failed # << >> /\ ~exh THEN "Exception"
    ELSE IF waiting # << >> THEN "Enforcer"
    ELSE IF failed # << >> \/ exh THEN "Exception"
    ELSE "return"

decide_waits_for_rerun(failed, waiting, exh, fstate) ==
    IF failed # << >> /\ ~exh THEN "Exception"
    ELSE IF waiting # << >> \/ fstate THEN "Enforcer"
    ELSE "return"

decide(failed, waiting, exh, fstate) ==
    IF failed # << >> /\ ~exh THEN "Exception"
    ELSE IF waiting # << >> THEN "Enforcer"
    ELSE IF fstate THEN "Exception"
    ELSE "return"

\* failed_state = False at the top of poll_vault, given its value in the
\* attempt before
failed_state_kept(before) == before
failed_state_reset(before) == FALSE

\* retry_if_exception_type(Enforcer), asked about what the attempt raised
\* ("return" when it raised nothing)
retry_on_any_exception(exc) == exc # "return"
retry_always(exc) == TRUE
retry_if_exception_type(exc) == exc = "Enforcer"

\* stop_after_delay(timeout), asked after an attempt that ended at second t
stop_after_attempts(t, limit) == attempt_number + 1 >= limit
stop_after_delay_strict(t, limit) == t > limit
stop_before_delay(t, limit) == t + interval >= limit
stop_never(t, limit) == FALSE
stop_after_delay(t, limit) == t >= limit

--------------------------------------------------------------------------
(* what the check run source can answer *)

MaxRuns == 2          \* longest list of check runs a fetch returns
MaxFetch == 8         \* longest time one fetch takes, in seconds

FetchError == << [id |-> 0, name |-> None, status |-> "error", conclusion |-> "None"] >>

Kind(s, c) == [status |-> s, conclusion |-> c]

ConclusionsKnown ==
    { "action_required", "cancelled", "timed_out", "failure", "failed", "neutral",
      "skipped", "stale", "startup_failure", "success" }

\* every conclusion the program knows, an absent one and one it does not know
AllKinds ==
    { Kind(Status_queued, "None"), Kind(Status_in_progress, "None"),
      Kind(Status_completed, "None"), Kind(Status_completed, "other") }
    \cup { Kind(Status_completed, c) : c \in ConclusionsKnown }

FewKinds ==
    { Kind(Status_in_progress, "None"), Kind(Status_completed, "None"),
      Kind(Status_completed, "success"), Kind(Status_completed, "failure") }

Runs(ids, names, kinds) ==
    { [id |-> i, name |-> n, status |-> k.status, conclusion |-> k.conclusion] :
        i \in ids, n \in names, k \in kinds }

\* the lists of at most maxlen check runs, with ids that are unique
Batches(names, kinds, maxlen) ==
    UNION { { s \in [1..n -> Runs(1..n, names, kinds)] :
                \A i, j \in 1..n : s[i].id = s[j].id => i = j } : n \in 0..maxlen }

PollBatches == Batches({ Str_a, Str_self }, FewKinds, MaxRuns)
ClassifyBatches == Batches({ Str_a, Str_self }, AllKinds, MaxRuns)

PollDurations == { 0, MaxFetch }
ClassifyDurations == { 0 }

MaxReduce == 3        \* longest list handed to reduce_to_latest_runs on its own
ReduceKinds == { Kind(Status_in_progress, "None"), Kind(Status_completed, "success") }
ReduceBatches == Batches({ Str_a, Str_b }, ReduceKinds, MaxReduce)

--------------------------------------------------------------------------
(* the process *)

InitWith(timings, names, ignores, modes) ==
    /\ \E tm \in timings : interval = tm[1] /\ timeout = tm[2]
    /\ name \in names
    /\ ignore \in ignores
    /\ exhaustive \in modes
    /\ user_ignore = << >>
    /\ pc = "hello"
    /\ now = 0
    /\ attempt_number = 0
    /\ attempt_start = 0
    /\ fetch_total = 0
    /\ one_incomplete = TRUE
    /\ seen_failed = FALSE
    /\ check_runs = << >>
    /\ latest_runs = << >>
    /\ _runs = << >>
    /\ incomplete = << >>
    /\ complete = << >>
    /\ ignored_runs = << >>
    /\ succeeded_runs = << >>
    /\ failed_runs = << >>
    /\ failed_state = FALSE
    /\ raised = "none"
    /\ summary = << >>
    /\ annotation = FALSE
    /\ exit_code = NoExit

\* hello up to the definition of poll_vault: the ignore list and the
\* connection to GitHub.  An exception here is not caught.
hello ==
    /\ pc = "hello"
    /\ IF ignore = None
         THEN /\ raised' = "AttributeError"
              /\ exit_code' = 1
              /\ pc' = "exit"
              /\ UNCHANGED user_ignore
         ELSE /\ user_ignore' = parse_ignore(ignore, name)
              /\ \E connected \in BOOLEAN :
                    IF connected
                      THEN pc' = "poll_vault" /\ UNCHANGED << raised, exit_code >>
                      ELSE /\ raised' = "GithubException"
                           /\ exit_code' = 1
                           /\ pc' = "exit"
    /\ UNCHANGED << interval, timeout, name, ignore, exhaustive, now, attempt_number,
                    attempt_start, fetch_total, one_incomplete, seen_failed, check_runs, latest_runs,
                    _runs, incomplete, complete, ignored_runs, succeeded_runs,
                    failed_runs, failed_state, summary, annotation >>

\* one attempt of poll_vault under @retry: the fetch, the classification, the
\* decision, and tenacity's choice between sleeping, RetryError and letting
\* the exception (or the return) through
poll_vault(Source, Durations) ==
    /\ pc = "poll_vault"
    /\ \E d \in Durations, resp \in Source \cup { FetchError } :
        LET t == now + d
            fetched == resp # FetchError
            fs0 == failed_state_reset(failed_state)
            lr == IF fetched THEN reduce_to_latest_runs(resp) ELSE << >>
            rs == name_filter(lr, user_ignore)
            inc == filter_and_log_by_status(rs, Status_incomplete)
            comp == filter_and_log_by_status(rs, Status_complete)
            ign == filter_and_log_by_conclusion(comp, Conclusion_ignored)
            suc == filter_and_log_by_conclusion(comp, Conclusion_succeeded)
            fl == filter_and_log_by_conclusion(comp, Conclusion_fail)
            fs == fs0 \/ fl # << >>
            exc == IF fetched THEN decide(fl, inc, exhaustive, fs) ELSE "GithubException"
        IN  /\ now' = t
            /\ fetch_total' = fetch_total + d
            /\ one_incomplete' = (one_incomplete /\ fetched /\ Len(resp) = 1 /\ Len(inc) = 1)
            /\ seen_failed' = (seen_failed \/ fl # << >>)
            /\ attempt_start' = now
            /\ attempt_number' = attempt_number + 1
            /\ check_runs' = (IF fetched THEN resp ELSE << >>)
            /\ latest_runs' = lr
            /\ _runs' = rs
            /\ incomplete' = inc
            /\ complete' = comp
            /\ ignored_runs' = ign
            /\ succeeded_runs' = suc
            /\ failed_runs' = fl
            /\ failed_state' = fs
            /\ summary' = IF exc = "Exception" THEN Append(summary, lr) ELSE summary
            /\ IF retry_if_exception_type(exc)
                 THEN IF stop_after_delay(t, timeout)
                        THEN raised' = "RetryError" /\ pc' = "except"
                        ELSE raised' = exc /\ pc' = "sleep"
                 ELSE IF exc = "return"
                        THEN raised' = "none" /\ pc' = "return"
                        ELSE raised' = exc /\ pc' = "except"
    /\ UNCHANGED << interval, timeout, name, ignore, exhaustive, user_ignore,
                    annotation, exit_code >>

\* tenacity sleeps wait_fixed(interval) and starts the next attempt; the
\* locals of the attempt that raised Enforcer are gone
wait_fixed ==
    /\ pc = "sleep"
    /\ now' = now + interval
    /\ pc' = "poll_vault"
    /\ check_runs' = << >>
    /\ latest_runs' = << >>
    /\ _runs' = << >>
    /\ incomplete' = << >>
    /\ complete' = << >>
    /\ ignored_runs' = << >>
    /\ succeeded_runs' = << >>
    /\ failed_runs' = << >>
    /\ UNCHANGED << interval, timeout, name, ignore, exhaustive, user_ignore,
                    attempt_number, attempt_start, fetch_total, one_incomplete,
                    seen_failed, failed_state, raised, summary, annotation, exit_code >>

hello_except_swallows ==
    /\ pc = "except"
    /\ annotation' = TRUE
    /\ exit_code' = 0
    /\ pc' = "exit"
    /\ UNCHANGED << interval, timeout, name, ignore, exhaustive, user_ignore, now,
                    attempt_number, attempt_start, fetch_total, one_incomplete,
                    seen_failed, check_runs, latest_runs, _runs, incomplete, complete,
                    ignored_runs, succeeded_runs, failed_runs, failed_state, raised,
                    summary >>

\* except (Exception, RetryError): the annotation and sys.exit(1)
hello_except ==
    /\ pc = "except"
    /\ annotation' = TRUE
    /\ exit_code' = 1
    /\ pc' = "exit"
    /\ UNCHANGED << interval, timeout, name, ignore, exhaustive, user_ignore, now,
                    attempt_number, attempt_start, fetch_total, one_incomplete, seen_failed, check_runs,
                    latest_runs, _runs, incomplete, complete, ignored_runs,
                    succeeded_runs, failed_runs, failed_state, raised, summary >>

\* poll_vault returned: hello ends and the process exits with 0
hello_return ==
    /\ pc = "return"
    /\ exit_code' = 0
    /\ pc' = "exit"
    /\ UNCHANGED << interval, timeout, name, ignore, exhaustive, user_ignore, now,
                    attempt_number, attempt_start, fetch_total, one_incomplete, seen_failed, check_runs,
                    latest_runs, _runs, incomplete, complete, ignored_runs,
                    succeeded_runs, failed_runs, failed_state, raised, summary,
                    annotation >>

PollTimings == { << 10, 25 >>, << 3, 4 >>, << 5, 2 >>, << 1, 0 >> }
PollIgnores == { None, << >>, << " ", "a" >> }

Init == InitWith(PollTimings, { Str_self, None }, PollIgnores, BOOLEAN)

Next ==
    \/ hello
    \/ poll_vault(PollBatches, PollDurations)
    \/ wait_fixed
    \/ hello_except
    \/ hello_return

Spec == Init /\ [][Next]_vars

--------------------------------------------------------------------------
(* the same process, fed every status and conclusion *)

ClassifyTimings == { << 1, 1 >> }
ClassifyIgnore == << " ", "a", "\t", ",", "b" >>

\* --name given or not with an empty --ignore, and --name with two names to
\* ignore; fail fast
InitClassify ==
    \/ InitWith(ClassifyTimings, { Str_self, None }, { << >> }, { FALSE })
    \/ InitWith(ClassifyTimings, { Str_self }, { ClassifyIgnore }, { FALSE })

NextClassify ==
    \/ hello
    \/ poll_vault(ClassifyBatches, ClassifyDurations)
    \/ wait_fixed
    \/ hello_except
    \/ hello_return

SpecClassify == InitClassify /\ [][NextClassify]_vars

--------------------------------------------------------------------------
(* the same process under a scheduler that always lets it take its next
   step: a fetch returns, a sleep ends *)

LiveBatches == Batches({ Str_a }, FewKinds, MaxRuns)
LiveTimings == { << 10, 25 >>, << 5, 2 >>, << 1, 0 >> }

InitLive == InitWith(LiveTimings, { Str_self }, { << >> }, BOOLEAN)

NextLive ==
    \/ hello
    \/ poll_vault(LiveBatches, PollDurations)
    \/ wait_fixed
    \/ hello_except
    \/ hello_return

SpecLive == InitLive /\ [][NextLive]_vars /\ WF_vars(NextLive)

--------------------------------------------------------------------------
(* reduce_to_latest_runs applied to a list of its own *)

InitReduce ==
    /\ interval = 1
    /\ timeout = 1
    /\ name = Str_self
    /\ ignore = << >>
    /\ exhaustive = FALSE
    /\ user_ignore = << >>
    /\ pc = "reduce"
    /\ now = 0
    /\ attempt_number = 0
    /\ attempt_start = 0
    /\ fetch_total = 0
    /\ one_incomplete = TRUE
    /\ seen_failed = FALSE
    /\ check_runs \in ReduceBatches
    /\ latest_runs = << >>
    /\ _runs = << >>
    /\ incomplete = << >>
    /\ complete = << >>
    /\ ignored_runs = << >>
    /\ succeeded_runs = << >>
    /\ failed_runs = << >>
    /\ failed_state = FALSE
    /\ raised = "none"
    /\ summary = << >>
    /\ annotation = FALSE
    /\ exit_code = NoExit

reduce_call ==
    /\ pc = "reduce"
    /\ latest_runs' = reduce_to_latest_runs(check_runs)
    /\ pc' = "reduced"
    /\ UNCHANGED << interval, timeout, name, ignore, exhaustive, user_ignore, now,
                    attempt_number, attempt_start, fetch_total, one_incomplete, seen_failed, check_runs, _runs,
                    incomplete, complete, ignored_runs, succeeded_runs, failed_runs,
                    failed_state, raised, summary, annotation, exit_code >>

NextReduce == reduce_call

SpecReduce == InitReduce /\ [][NextReduce]_vars

--------------------------------------------------------------------------
(* Vocabulary of the properties *)

Range(seq) == { seq[i] : i \in 1..Len(seq) }

\* the last attempt fetched, classified and decided, and its locals are
\* still there
CycleDone ==
    /\ attempt_number > 0
    /\ pc \in { "sleep", "except", "return", "exit" }
    /\ raised \in { "Enforcer", "RetryError", "Exception", "none" }

\* the outcome of the last poll cycle
CycleOutcome ==
    IF raised \in { "Enforcer", "RetryError" } THEN "Retry"
    ELSE IF raised = "Exception" THEN "Failure"
    ELSE IF raised = "none" THEN "Success"
    ELSE "Error"

\* the latest attempt of every check among the fetched runs
LatestFetched ==
    { r \in Range(check_runs) :
        \A q \in Range(check_runs) : q.name = r.name => q.id <= r.id }

\* the pieces of the --ignore option between commas, without the white
\* space around them, and the --name option
IgnoreNames ==
    LET n == Len(ignore)
        Comma(i) == i \in 1..n /\ ignore[i] = ","
        Blank(i) == i \in 1..n /\ ignore[i] \in { " ", "\t", "\n" }
        Piece(i, j) ==
            /\ i = 1 \/ Comma(i - 1)
            /\ j = n \/ Comma(j + 1)
            /\ \A m \in i..j : ~Comma(m)
        Trimmed(i, j, k, l) ==
            /\ i <= k /\ k <= l + 1 /\ l <= j
            /\ \A m \in i..(k - 1) : Blank(m)
            /\ \A m \in (l + 1)..j : Blank(m)
            /\ k <= l => ~Blank(k) /\ ~Blank(l)
        Pieces == { p \in (1..(n + 1)) \X (0..n) : Piece(p[1], p[2]) }
    IN  { name } \cup
        UNION { { SubSeq(ignore, q[1], q[2]) :
                    q \in { r \in (p[1]..(p[2] + 1)) \X ((p[1] - 1)..p[2]) :
                              Trimmed(p[1], p[2], r[1], r[2]) } } :
                p \in Pieces }

\* the runs a poll cycle has to classify
Monitored ==
    LET ign == IgnoreNames
    IN  { r \in LatestFetched : r.name \notin ign }

--------------------------------------------------------------------------
(* C1.  Fail fast: in a poll cycle with exhaustive = false and a non-empty
   failed bucket the outcome is Failure, however many runs are incomplete,
   and no poll cycle follows it. *)
C1_FailFast ==
    /\ [](CycleDone /\ ~exhaustive /\ failed_runs # << >>
            => CycleOutcome = "Failure" /\ pc \in { "except", "exit" })
    /\ [][CycleDone /\ ~exhaustive /\ failed_runs # << >>
            => attempt_number' = attempt_number /\ pc' \in { "except", "exit" }]_vars

C1_Witness ==
    /\ CycleDone /\ ~exhaustive
    /\ failed_runs # << >> /\ incomplete # << >>
    /\ pc = "exit" /\ exit_code = 1

(* C2.  Exhaustive waiting: in a poll cycle with exhaustive = true and a
   non-empty incomplete bucket the outcome is Retry, whether or not a run
   has failed; no Failure while a monitored run is queued or in progress. *)
C2_ExhaustiveWaits ==
    CycleDone /\ exhaustive =>
        /\ incomplete # << >> => CycleOutcome = "Retry"
        /\ (\E r \in Monitored : r.status \in { "queued", "in_progress" })
              => CycleOutcome # "Failure"

C2_Witness ==
    /\ CycleDone /\ exhaustive
    /\ incomplete # << >> /\ failed_runs # << >>
    /\ pc = "sleep"

(* C3.  Terminal success: a poll cycle ends in Success exactly when its
   failed bucket and its incomplete bucket are both empty, whatever the
   other buckets hold and whatever exhaustive is. *)
C3_SuccessIff ==
    CycleDone =>
        (CycleOutcome = "Success" <=> failed_runs = << >> /\ incomplete = << >>)

C3_Witness ==
    /\ CycleDone /\ exhaustive
    /\ CycleOutcome = "Success"
    /\ succeeded_runs # << >>
    /\ Len(complete) > Len(succeeded_runs)
    /\ pc = "exit" /\ exit_code = 0

(* C4.  Failure after completion: a poll cycle with an empty incomplete
   bucket and a non-empty failed bucket ends in Failure, in both modes. *)
C4_FailureWhenComplete ==
    CycleDone /\ incomplete = << >> /\ failed_runs # << >>
        => CycleOutcome = "Failure"

C4_Witness ==
    /\ CycleDone /\ exhaustive
    /\ incomplete = << >> /\ failed_runs # << >>
    /\ attempt_number > 1
    /\ raised = "Exception"

(* C5.  Deduplication: reduce_to_latest_runs returns one run per name of
   its input, the one of that name with the largest id, and nothing else;
   an empty input gives an empty output. *)
C5_Deduplication ==
    pc = "reduced" =>
        /\ \A r \in Range(check_runs) :
              Cardinality({ j \in 1..Len(latest_runs) : latest_runs[j].name = r.name }) = 1
        /\ \A j \in 1..Len(latest_runs) :
              /\ latest_runs[j] \in Range(check_runs)
              /\ \A q \in Range(check_runs) :
                    q.name = latest_runs[j].name => q.id <= latest_runs[j].id
        /\ check_runs = << >> => latest_runs = << >>

C5_Witness ==
    /\ pc = "reduced"
    /\ Len(check_runs) = 3 /\ Len(latest_runs) = 2
    /\ check_runs[1].name = check_runs[2].name
    /\ check_runs[1].id < check_runs[2].id
    /\ check_runs[3].id = 2

(* C6.  Name filtering and self exclusion: a run whose name is one of the
   trimmed --ignore names or the --name of the invoking check is in none of
   the buckets, whatever its status and conclusion; a batch of such runs
   alone ends in neither Retry nor Failure. *)
C6_IgnoredNamesNeverClassified ==
    CycleDone =>
        LET ign == IgnoreNames
        IN  /\ \A r \in Range(incomplete) \cup Range(complete) \cup Range(ignored_runs)
                        \cup Range(succeeded_runs) \cup Range(failed_runs) :
                  r.name \notin ign
            /\ (\A r \in Range(check_runs) : r.name \in ign)
                  => CycleOutcome = "Success"

C6_Witness ==
    /\ CycleDone /\ name = Str_self /\ ignore # << >>
    /\ \E r \in Range(check_runs) :
          r.name = Str_a /\ r.status = "completed" /\ r.conclusion = "failure"
    /\ \E r \in Range(check_runs) : r.name = Str_self /\ r.status = "in_progress"
    /\ CycleOutcome = "Success"

(* C7.  Classification totality: the four buckets are pairwise disjoint; a
   monitored completed run with a known conclusion is in exactly the bucket
   of that conclusion; a completed run with an unknown or absent conclusion
   is in none of the three and is counted among the completed runs. *)
C7_ClassificationTotal ==
    CycleDone =>
        LET I == Range(incomplete)
            G == Range(ignored_runs)
            S == Range(succeeded_runs)
            F == Range(failed_runs)
            M == Monitored
            Known == { "neutral", "skipped", "success", "action_required", "cancelled",
                       "timed_out", "failure", "failed", "stale", "startup_failure" }
        IN  /\ I \cap G = { } /\ I \cap S = { } /\ I \cap F = { }
            /\ G \cap S = { } /\ G \cap F = { } /\ S \cap F = { }
            /\ \A r \in M :
                  r.status = "completed" =>
                    /\ r \in G <=> r.conclusion \in { "neutral", "skipped" }
                    /\ r \in S <=> r.conclusion \in { "success" }
                    /\ r \in F <=> r.conclusion \in
                                     { "action_required", "cancelled", "timed_out", "failure",
                                       "failed", "stale", "startup_failure" }
                    /\ r.conclusion \notin Known => r \notin G \cup S \cup F
                    /\ r \in Range(complete)
            /\ Len(complete) = Cardinality({ r \in M : r.status = "completed" })

C7_Witness ==
    /\ CycleDone
    /\ \E r \in Range(failed_runs) : r.conclusion = "stale"
    /\ \E r \in Range(complete) :
          r.conclusion = "other" /\ r \notin Range(failed_runs) \cup Range(succeeded_runs)
                                                \cup Range(ignored_runs)
    /\ Len(complete) = 2

--------------------------------------------------------------------------
(* the poll loop against the clock *)

\* the process has left the poll loop
LoopEnded == attempt_number > 0 /\ pc \in { "except", "return", "exit" }

\* interval = 10 s, timeout = 25 s, and every fetch returned one incomplete,
\* monitored run
C8_Scenario == interval = 10 /\ timeout = 25 /\ one_incomplete

(* C8 as stated.  Timeout cycle count: with interval = 10 s, timeout = 25 s
   and a source that reports one incomplete run on every fetch, the loop
   makes exactly 2 or 3 poll cycles and ends with TimedOut. *)
C8_TwoOrThreeCycles ==
    LoopEnded /\ C8_Scenario =>
        raised = "RetryError" /\ attempt_number \in { 2, 3 }

(* C8, amended.  In that scenario the loop ends with TimedOut after the
   first poll cycle that ends 25 s or more after the start: that is the 4th
   cycle when the fetches take no time (cycles start at 0, 10, 20 and 30 s),
   an earlier one only when the fetches are slow, and never a 5th. *)
C8_UpToFourCycles ==
    LoopEnded /\ C8_Scenario =>
        /\ raised = "RetryError"
        /\ attempt_number \in 1..4
        /\ now >= 25
        /\ now = 10 * (attempt_number - 1) + fetch_total
        /\ attempt_number > 1 => attempt_start - 10 < 25
        /\ fetch_total = 0 => attempt_number = 4

C8_Witness ==
    /\ LoopEnded /\ C8_Scenario
    /\ fetch_total = 0
    /\ attempt_number = 4
    /\ raised = "RetryError"
    /\ pc = "exit" /\ exit_code = 1

(* C9 as stated.  Never a late success: a poll cycle that starts after the
   elapsed time has exceeded timeout cannot end the loop in Success or
   Failure; the loop ends in TimedOut. *)
C9_NoLateOutcome ==
    LoopEnded /\ attempt_start > timeout /\ raised # "GithubException"
        => raised = "RetryError"

(* C9, amended.  The budget is looked at only when a poll cycle ends in
   Retry: the loop sleeps only if that cycle ended before timeout, and ends
   in TimedOut if it ended at timeout or later.  A later cycle therefore
   starts less than one interval after a cycle that ended within the budget;
   whatever it decides, Success and Failure included, is the result. *)
C9_BudgetCheckedOnRetry ==
    /\ pc = "sleep" => raised = "Enforcer" /\ now < timeout
    /\ raised = "RetryError" => CycleDone /\ incomplete # << >> /\ now >= timeout
    /\ attempt_number > 1 => attempt_start - interval < timeout
    /\ CycleDone /\ CycleOutcome = "Retry" /\ now >= timeout => raised = "RetryError"
    /\ LoopEnded /\ raised \in { "none", "Exception" } =>
          /\ CycleOutcome \in { "Success", "Failure" }
          /\ pc = "exit" => exit_code = (IF raised = "none" THEN 0 ELSE 1)

C9_Witness ==
    /\ pc = "exit" /\ exit_code = 0
    /\ raised = "none"
    /\ attempt_number > 1
    /\ attempt_start > timeout

(* C10.  Budget overshoot: no poll cycle starts later than timeout +
   interval after the start, for every interval, timeout and source. *)
C10_StartWithinOneInterval ==
    /\ attempt_number > 0 => attempt_start <= timeout + interval
    /\ pc = "poll_vault" => now <= timeout + interval

C10_Witness ==
    /\ attempt_number > 1
    /\ attempt_start > timeout
    /\ interval > timeout
    /\ raised = "RetryError"

--------------------------------------------------------------------------
(* errors, the summary and the exit code *)

\* a fetch of this run returned a list of check runs
FetchedOnce == attempt_number > 1 \/ (attempt_number = 1 /\ raised # "GithubException")

\* the state of the poll loop in the words of the state machine
LoopState ==
    IF attempt_number = 0 \/ pc \in { "poll_vault", "sleep" } THEN "Polling"
    ELSE IF raised = "none" THEN "Succeeded"
    ELSE IF raised = "Exception" THEN "Failed"
    ELSE IF raised = "RetryError" THEN "TimedOut"
    ELSE "FatalError"

(* C11.  Transport errors are fatal: when a fetch raises, in the first or a
   later poll cycle, the loop ends in FatalError at once, no fetch follows
   and the process exits non-zero; tenacity sleeps and retries only after
   Enforcer. *)
C11_FetchErrorIsFatal ==
    /\ [](attempt_number > 0 /\ raised = "GithubException"
            => /\ LoopState = "FatalError"
               /\ pc \in { "except", "exit" }
               /\ pc = "exit" => exit_code = 1)
    /\ [](pc = "sleep" => raised = "Enforcer")
    /\ [][attempt_number > 0 /\ raised = "GithubException"
            => attempt_number' = attempt_number /\ pc' = "exit"]_vars

C11_Witness ==
    /\ attempt_number > 1
    /\ raised = "GithubException"
    /\ pc = "exit" /\ exit_code = 1

(* C12.  Summary on every definitive outcome: when a poll cycle ends in
   Success or in Failure, a summary of the reduced runs has been written
   before the loop returns. *)
C12_SummaryOnSuccessAndFailure ==
    LoopEnded /\ LoopState \in { "Succeeded", "Failed" }
        => summary = << latest_runs >>

(* C13.  Summary before every failing termination: a run that ends as
   Failure, TimedOut or FatalError after a successful fetch has written a
   summary table. *)
C13_SummaryBeforeFailingExit ==
    pc = "exit" /\ FetchedOnce /\ LoopState \in { "Failed", "TimedOut", "FatalError" }
        => summary # << >>

(* C14.  Exit code: the process exits with 0 exactly when the poll loop
   ended in Success; Failure, TimedOut and FatalError exit non-zero and log
   the error annotation. *)
C14_ExitCode ==
    pc = "exit" =>
        /\ exit_code = 0 <=> LoopState = "Succeeded"
        /\ LoopState \in { "Failed", "TimedOut", "FatalError" }
              => exit_code # 0 /\ annotation

C14_Witness ==
    /\ pc = "exit" /\ exit_code = 1
    /\ LoopState = "TimedOut"
    /\ annotation

(* C15 as stated.  Exhaustive mode, failure is sticky: once a poll cycle has
   seen a failed run, the run never ends in Success. *)
C15_FailureIsSticky ==
    exhaustive /\ seen_failed /\ LoopEnded => LoopState # "Succeeded"

(* C15, amended.  In exhaustive mode the cycle in which nothing is
   incomplete decides alone: failed_state is that cycle's own failed bucket
   being non-empty, whatever earlier cycles saw, so the run ends in Failure
   when that bucket is non-empty and in Success when it is empty. *)
C15_LastCycleDecides ==
    exhaustive /\ CycleDone =>
        /\ failed_state = (failed_runs # << >>)
        /\ LoopEnded /\ incomplete = << >> =>
              LoopState = (IF failed_runs # << >> THEN "Failed" ELSE "Succeeded")

C15_Witness ==
    /\ exhaustive /\ seen_failed
    /\ LoopState = "Succeeded"
    /\ \E r \in Range(check_runs) : r.id = 2 /\ r.name = Str_a /\ r.conclusion = "success"
    /\ pc = "exit" /\ exit_code = 0

(* C16.  Retry only on incomplete: the loop sleeps for another poll cycle
   only after a cycle with a non-empty incomplete bucket (and, failing fast,
   an empty failed bucket) that ended within the budget; a poll cycle starts
   only from there or at the start, and nothing is fetched once the loop is
   Succeeded, Failed, TimedOut or FatalError. *)
C16_RetryOnlyOnIncomplete ==
    /\ [](pc = "sleep" =>
            /\ incomplete # << >>
            /\ ~exhaustive => failed_runs = << >>
            /\ now < timeout)
    /\ [][pc' = "poll_vault" => pc \in { "hello", "sleep" }]_vars
    /\ [][LoopState # "Polling" =>
            /\ attempt_number' = attempt_number
            /\ LoopState' = LoopState
            /\ pc' = "exit"]_vars

C16_Witness ==
    /\ pc = "sleep"
    /\ attempt_number = 2
    /\ exhaustive /\ failed_runs # << >> /\ Len(incomplete) = 1

(* C17.  Termination: with interval > 0 and a finite timeout the poll loop,
   once started, reaches Succeeded, Failed, TimedOut or FatalError whatever
   the source answers, and it starts no cycle later than one interval after
   the budget has run out. *)
C17_Terminates ==
    /\ (pc = "poll_vault" ~> (pc = "exit" /\ LoopState # "Polling"))
    /\ [](attempt_number >= 2 => (attempt_number - 2) * interval < timeout)

C17_Witness ==
    /\ pc = "exit"
    /\ LoopState = "TimedOut"
    /\ one_incomplete
    /\ attempt_number = 4

(* C18.  Unknown conclusions are neutral: a monitored completed run whose
   conclusion is absent or not a known one is neither incomplete nor failed,
   and a batch of such runs only ends in Success. *)
C18_UnknownConclusionNeutral ==
    CycleDone =>
        LET M == Monitored
            U == { r \in M : r.status = "completed" /\ r.conclusion \notin ConclusionsKnown }
        IN  /\ U \cap (Range(incomplete) \cup Range(failed_runs)) = { }
            /\ U = M => CycleOutcome = "Success"
            /\ (\A r \in M \ U : r.status = "completed" /\ r.conclusion \in { "success", "neutral", "skipped" })
                  => CycleOutcome = "Success"

C18_Witness ==
    /\ CycleDone /\ CycleOutcome = "Success"
    /\ Len(complete) = 2
    /\ \E r \in Range(complete) : r.conclusion = "None"
    /\ \E r \in Range(complete) : r.conclusion = "other"

(* C19.  Optional ignore list: without --ignore the ignore list is the
   name of the invoking check alone and the program reaches the poll
   loop. *)
C19_IgnoreIsOptional ==
    ignore = None /\ pc # "hello" =>
        /\ raised # "AttributeError"
        /\ user_ignore = << name >>

(* C20.  At least one poll: for every timeout, 0 included, TimedOut comes
   only after a complete poll cycle that ended in Retry, and a first cycle
   that decides Success or Failure is the result even when the budget is
   already used up at its end. *)
C20_AtLeastOnePoll ==
    /\ LoopState = "TimedOut" =>
          attempt_number >= 1 /\ CycleDone /\ incomplete # << >>
    /\ CycleDone /\ attempt_number = 1 /\ now >= timeout /\ incomplete = << >> =>
          LoopState = (IF failed_runs # << >> THEN "Failed" ELSE "Succeeded")
    /\ CycleDone /\ attempt_number = 1 /\ ~exhaustive /\ failed_runs # << >> =>
          LoopState = "Failed"

C20_Witness ==
    /\ timeout = 0
    /\ attempt_number = 1
    /\ now > timeout
    /\ LoopState = "Succeeded"
    /\ pc = "exit" /\ exit_code = 0

====
